---- MODULE Spec2Model ----
(***************************************************************************)
(* The span-lifecycle layer of tracing-distributed (TelemetryLayer), the   *)
(* distributed-context API (register_dist_tracing_root,                    *)
(* current_dist_trace_ctx) and the Telemetry sink they publish to.         *)
(*                                                                         *)
(* Every registry callback is one atomic action: the registry serialises   *)
(* access to a span's extensions, and one thread runs the callbacks here.  *)
(* Option<T> is modelled as a sequence: None is <<>>, Some(x) is <<x>>.    *)
(*                                                                         *)
(* The OTLP adapter of tracing-otlp and its export worker (Worker::run_loop)*)
(* form a second specification, WorkerSpec: threads that close spans send  *)
(* on the channel, the worker receives, buffers and POSTs.                 *)
(***************************************************************************)
EXTENDS Integers, Sequences, FiniteSets, TLC

\* ------------------------------------------------------------------ bounds
\* Spans opened in one run (registry ids 1..MaxSpans, never reused).
MaxSpans == 2
\* on_new_span, on_record, on_event and register_dist_tracing_root calls in
\* one run.
MaxCalls == 5
\* Spans closed, and sent to the worker, in one run.
MaxSent == 2
\* Send intervals that elapse in one run.
MaxTicks == 3
MaxClock == 2
\* Threads that close spans.
NThreads == 2

\* The (trace_id, remote_parent_span) pairs given to
\* register_dist_tracing_root: the pair of the test scenario (135, Some(246))
\* and a second trace without a remote parent.
RootInputs == {<<135, <<246>>>>, <<136, <<>>>>}

\* ------------------------------------------------------------------ Option
None == <<>>
Some(x) == <<x>>
IsSome(o) == o # <<>>
Unwrap(o) == o[1]

SpanIds == 1..MaxSpans

VARIABLES
    registry,        \* registry id -> Option<span data>: parent and extensions
    stack,           \* the thread's stack of entered spans; its top is current
    isRegistry,      \* the dispatcher downcasts to tracing_subscriber::Registry
    nextId,          \* next registry id to hand out
    nextEvent,       \* serial number of the next event
    nCalls,          \* on_new_span, on_record, on_event and register_root
                     \* calls so far
    reported_spans,  \* Telemetry::report_span calls: <<[span, events]>>
    reported_events, \* Telemetry::report_event calls
    last,            \* the call made by the last step and what it returned
                     \* (NoCall after on_new_span, on_record, enter, exit)
    rooted           \* history: open span -> the TraceCtx given by the last
                     \* successful register_dist_tracing_root on it, if any

vars == <<registry, stack, isRegistry, nextId, nextEvent, nCalls,
          reported_spans, reported_events, last, rooted>>

\* ------------------------------------------------------------------ helpers
Live == {i \in SpanIds : IsSome(registry[i])}
Ext(i) == Unwrap(registry[i]).ext
ParentOf(i) == Unwrap(registry[i]).parent
HasCtx(i) == IsSome(registry[i]) /\ IsSome(Ext(i).TraceCtx)
InStack(i) == \E k \in 1..Len(stack) : stack[k] = i
Children(i) == {c \in Live : ParentOf(c) = Some(i)}

\* tracing::Span::current() / ctx.current_span().id(): top of the stack.
CurrentSpan == IF stack = <<>> THEN None ELSE Some(stack[Len(stack)])

\* The promotion function handed to TelemetryLayer::new by the builder:
\* SpanId(tracing_id.into_u64()).
promote_span_id(id) == id

\* A call record: the operation, the span it acted on (0: none), the error it
\* returned ("": none), and the value it was given or returned.
Call(op, id, err, val) == [op |-> op, id |-> id, err |-> err, val |-> val]
NoCall == Call("none", 0, "", None)

Init ==
    /\ registry = [i \in SpanIds |-> None]
    /\ stack = <<>>
    /\ isRegistry \in BOOLEAN
    /\ nextId = 1
    /\ nextEvent = 1
    /\ nCalls = 0
    /\ reported_spans = <<>>
    /\ reported_events = <<>>
    /\ last = NoCall
    /\ rooted = [i \in SpanIds |-> None]

\* ------------------------------------------------------------------ on_new_span
\* Mutant of Inherited: the child copies the parent's own parent_span when
\* the parent has one, and so becomes a sibling of its parent.
InheritedSibling(p) ==
    IF IsSome(p) /\ IsSome(registry[Unwrap(p)])
    THEN LET extensions == Ext(Unwrap(p))
             span_id == Unwrap(extensions.PromotedSpanId)
         IN IF IsSome(extensions.TraceCtx)
            THEN LET ctx == Unwrap(extensions.TraceCtx)
                 IN Some(<<ctx.trace_id,
                           IF IsSome(ctx.parent_span) THEN Unwrap(ctx.parent_span)
                           ELSE span_id>>)
            ELSE None
    ELSE None

\* pinfo: the parent's (trace_id, promoted span id) when the parent span
\* exists and its extensions hold a TraceCtx.
Inherited(p) ==
    IF IsSome(p) /\ IsSome(registry[Unwrap(p)])
    THEN LET extensions == Ext(Unwrap(p))
             span_id == Unwrap(extensions.PromotedSpanId)
         IN IF IsSome(extensions.TraceCtx)
            THEN Some(<<Unwrap(extensions.TraceCtx).trace_id, span_id>>)
            ELSE None
    ELSE None

\* The visitor the sink makes for a new span: an empty list of attributes.
mk_visitor == <<>>

\* Mutant of record: a field whose key the visitor already holds is not
\* added (the attributes behave as a map).
record_map(visitor, values) ==
    visitor \o SelectSeq(values, LAMBDA f : \A k \in 1..Len(visitor) : visitor[k] # f)

\* attrs.record(visitor) / values.record(visitor): one record_* call per
\* field, in the order of the fields, each pushing one pair onto the list.
record(visitor, values) == visitor \o values

\* Mutant of NewExtensions: the inherited context names the new span itself
\* as parent instead of the span it was opened under.
NewExtensionsSelf(id, attrs, pinfo) ==
    [SpanInitAt |-> Some("SpanInitAt"),
     PromotedSpanId |-> Some(promote_span_id(id)),
     Visitor |-> Some(attrs),
     Events |-> Some(<<>>),
     FollowsFrom |-> None,
     TraceCtx |-> IF IsSome(pinfo)
                  THEN Some([trace_id |-> Unwrap(pinfo)[1],
                             parent_span |-> Some(promote_span_id(id))])
                  ELSE None]

\* Mutant of NewExtensions: the initialisation timestamp is not stored.
NewExtensionsNoInitAt(id, attrs, pinfo) ==
    [SpanInitAt |-> None,
     PromotedSpanId |-> Some(promote_span_id(id)),
     Visitor |-> Some(attrs),
     Events |-> Some(<<>>),
     FollowsFrom |-> None,
     TraceCtx |-> IF IsSome(pinfo)
                  THEN Some([trace_id |-> Unwrap(pinfo)[1],
                             parent_span |-> Some(Unwrap(pinfo)[2])])
                  ELSE None]

\* The extensions on_new_span leaves in the new span.
NewExtensions(id, attrs, pinfo) ==
    [SpanInitAt |-> Some("SpanInitAt"),
     PromotedSpanId |-> Some(promote_span_id(id)),
     Visitor |-> Some(record(mk_visitor, attrs)),
     Events |-> Some(<<>>),
     FollowsFrom |-> None,
     TraceCtx |-> IF IsSome(pinfo)
                  THEN Some([trace_id |-> Unwrap(pinfo)[1],
                             parent_span |-> Some(Unwrap(pinfo)[2])])
                  ELSE None]

\* The registry creates span nextId with parent p (explicit, contextual or
\* none) and calls the layer's on_new_span.
on_new_span(attrs, p) ==
    LET id == nextId
        ext == NewExtensions(id, attrs, Inherited(p))
    IN /\ nextId <= MaxSpans
       /\ nCalls < MaxCalls
       /\ nCalls' = nCalls + 1
       /\ registry' = [registry EXCEPT ![id] = Some([parent |-> p, ext |-> ext])]
       /\ nextId' = nextId + 1
       /\ last' = NoCall
       /\ UNCHANGED <<stack, isRegistry, nextEvent, reported_spans,
                      reported_events, rooted>>

\* ------------------------------------------------------------------ on_record
on_record(id, values) ==
    /\ IsSome(registry[id])
    /\ nCalls < MaxCalls
    /\ LET visitor == Unwrap(Ext(id).Visitor)
       IN registry' = [registry EXCEPT ![id] =
              Some([Unwrap(@) EXCEPT !.ext.Visitor = Some(record(visitor, values))])]
    /\ nCalls' = nCalls + 1
    /\ last' = NoCall
    /\ UNCHANGED <<stack, isRegistry, nextId, nextEvent, reported_spans,
                   reported_events, rooted>>

\* ------------------------------------------------------------------ enter / exit
\* The registry pushes an entered span on the thread's stack and pops it on
\* exit; the layer has no on_enter / on_exit of its own.
\* Mutant of enter: a span entered without a TraceCtx adopts the context of
\* the span that is current on the thread.
enter_adopt(id) ==
    /\ IsSome(registry[id])
    /\ ~InStack(id)
    /\ stack' = Append(stack, id)
    /\ registry' =
           IF ~IsSome(Ext(id).TraceCtx) /\ stack # <<>> /\ HasCtx(stack[Len(stack)])
           THEN [registry EXCEPT ![id] = Some([Unwrap(@) EXCEPT !.ext.TraceCtx =
                    Some([trace_id |-> Unwrap(Ext(stack[Len(stack)]).TraceCtx).trace_id,
                          parent_span |-> Some(promote_span_id(stack[Len(stack)]))])])]
           ELSE registry
    /\ last' = NoCall
    /\ UNCHANGED <<isRegistry, nextId, nextEvent, nCalls,
                   reported_spans, reported_events, rooted>>

enter(id) ==
    /\ IsSome(registry[id])
    /\ ~InStack(id)
    /\ stack' = Append(stack, id)
    /\ last' = NoCall
    /\ UNCHANGED <<registry, isRegistry, nextId, nextEvent, nCalls,
                   reported_spans, reported_events, rooted>>

exit ==
    /\ stack # <<>>
    /\ stack' = SubSeq(stack, 1, Len(stack) - 1)
    /\ last' = NoCall
    /\ UNCHANGED <<registry, isRegistry, nextId, nextEvent, nCalls,
                   reported_spans, reported_events, rooted>>

\* ------------------------------------------------------------------ on_event
\* An event names its parent as tracing does: an explicit span, explicitly
\* no span (root), or the span current on the emitting thread.
EventInputs ==
    {[kind |-> "root", id |-> 0], [kind |-> "current", id |-> 0]}
        \cup {[kind |-> "explicit", id |-> i] : i \in Live}

\* Mutant of EventParentId: the is_root() arm is missing.
EventParentIdNoRoot(ev) ==
    IF ev.kind = "explicit" THEN Some(ev.id) ELSE CurrentSpan

\* Mutant of EventParentId: the span current on the thread is preferred to
\* the parent the event names.
EventParentIdCurrentFirst(ev) ==
    IF ev.kind = "root" THEN None
    ELSE IF CurrentSpan # None THEN CurrentSpan
    ELSE IF ev.kind = "explicit" THEN Some(ev.id)
    ELSE None

\* The parent id on_event settles on.
EventParentId(ev) ==
    IF ev.kind = "explicit" THEN Some(ev.id)
    ELSE IF ev.kind = "root" THEN None
    ELSE CurrentSpan

\* The event published for an event without a parent.
RootEvent(visitor) ==
    [trace_id |-> None, parent_id |-> None, values |-> visitor]

\* Mutant of ParentTraceCtx: an untraced parent falls back on its own parent.
ParentTraceCtxAncestor(parent_id) ==
    IF IsSome(registry[parent_id])
    THEN IF IsSome(Ext(parent_id).TraceCtx) THEN Ext(parent_id).TraceCtx
         ELSE IF IsSome(ParentOf(parent_id))
         THEN Ext(Unwrap(ParentOf(parent_id))).TraceCtx
         ELSE None
    ELSE None

\* The trace context on_event reads from the parent span, if any.
ParentTraceCtx(parent_id) ==
    IF IsSome(registry[parent_id]) THEN Ext(parent_id).TraceCtx ELSE None

\* The event attached to a parent span that is part of a trace.
ChildEvent(parent_id, parent_trace_ctx, visitor) ==
    [trace_id |-> Some(parent_trace_ctx.trace_id),
     parent_id |-> Some(Unwrap(Ext(parent_id).PromotedSpanId)),
     values |-> visitor]

\* Mutant of PushEvent: the event is put in front of the earlier ones.
PushEventFront(events, event) == <<event>> \o events

\* Vec::push onto the parent's list of pending events.
PushEvent(events, event) == Append(events, event)

\* Telemetry::report_event and Telemetry::report_span of the recording sink.
report_event(event) == Append(reported_events, event)
\* Mutant of report_span: the sink keeps the newest record first.
report_span_front(span, events) ==
    <<[span |-> span, events |-> events]>> \o reported_spans

report_span(span, events) ==
    Append(reported_spans, [span |-> span, events |-> events])

\* The fields of the n-th event: its serial number tells events apart.
on_event(ev) ==
    LET parent_id == EventParentId(ev)
        visitor == <<nextEvent>>
        ctx == IF IsSome(parent_id) THEN ParentTraceCtx(Unwrap(parent_id)) ELSE None
    IN /\ nCalls < MaxCalls
       /\ nCalls' = nCalls + 1
       /\ nextEvent' = nextEvent + 1
       /\ IF parent_id = None
          THEN /\ reported_events' = report_event(RootEvent(visitor))
               /\ UNCHANGED registry
          ELSE /\ UNCHANGED reported_events
               /\ IF IsSome(ctx)
                  THEN LET pid == Unwrap(parent_id)
                           event == ChildEvent(pid, Unwrap(ctx), visitor)
                       IN registry' = [registry EXCEPT ![pid] =
                              Some([Unwrap(@) EXCEPT !.ext.Events =
                                        Some(PushEvent(Unwrap(@), event))])]
                  ELSE UNCHANGED registry
       /\ last' = Call("on_event", IF IsSome(parent_id) THEN Unwrap(parent_id) ELSE 0,
                       "", Some(ev))
       /\ UNCHANGED <<stack, isRegistry, nextId, reported_spans, rooted>>

\* ------------------------------------------------------------------ on_close
\* The Span record on_close builds from the extensions it removed.
ClosedSpan(ext) ==
    LET trace_ctx == Unwrap(ext.TraceCtx)
    IN [id |-> Unwrap(ext.PromotedSpanId),
        trace_id |-> trace_ctx.trace_id,
        parent_id |-> trace_ctx.parent_span,
        follows_from |-> ext.FollowsFrom,
        values |-> Unwrap(ext.Visitor)]

\* Mutant of IsTraced: only a span whose context names a parent is reported.
IsTracedWithParent(ext) ==
    IsSome(ext.TraceCtx) /\ IsSome(Unwrap(ext.TraceCtx).parent_span)

\* on_close reports a span whose extensions hold a TraceCtx.
IsTraced(ext) == IsSome(ext.TraceCtx)

\* The registry closes a span when its last reference is dropped: the span is
\* not entered and no open child refers to it.  After the callback the
\* registry frees the span data with whatever is left of the extensions.
on_close(id) ==
    /\ IsSome(registry[id])
    /\ ~InStack(id)
    /\ Children(id) = {}
    /\ reported_spans' = IF IsTraced(Ext(id))
                         THEN report_span(ClosedSpan(Ext(id)), Unwrap(Ext(id).Events))
                         ELSE reported_spans
    /\ registry' = [registry EXCEPT ![id] = None]
    /\ last' = Call("on_close", id, "", None)
    /\ rooted' = [rooted EXCEPT ![id] = None]
    /\ UNCHANGED <<stack, isRegistry, nextId, nextEvent, nCalls,
                   reported_events>>

\* ------------------------------------------------------------------ context API
\* The TraceCtx register_dist_tracing_root installs.
RootCtx(trace_id, remote_parent_span) ==
    [parent_span |-> remote_parent_span, trace_id |-> trace_id]

\* Mutant of Rooted: the new context is also pushed down to the open children.
RootedRetag(id, ctx) ==
    [i \in SpanIds |->
        IF i = id
        THEN Some([Unwrap(registry[i]) EXCEPT !.ext.TraceCtx = Some(ctx)])
        ELSE IF IsSome(registry[i]) /\ Unwrap(registry[i]).parent = Some(id)
        THEN Some([Unwrap(registry[i]) EXCEPT !.ext.TraceCtx =
                      Some([parent_span |-> Some(promote_span_id(id)),
                            trace_id |-> ctx.trace_id])])
        ELSE registry[i]]

\* Mutant of Rooted: an insert that keeps a context the span already holds.
RootedIfAbsent(id, ctx) ==
    [registry EXCEPT ![id] =
        Some([Unwrap(@) EXCEPT !.ext.TraceCtx = IF IsSome(@) THEN @ ELSE Some(ctx)])]

\* The registry after extensions_mut().replace(TraceCtx) on span id: the
\* given value takes that span's slot, whatever it held.
Rooted(id, ctx) ==
    [registry EXCEPT ![id] = Some([Unwrap(@) EXCEPT !.ext.TraceCtx = Some(ctx)])]

\* Mutant of RootErr: the result of the downcast is not checked.
RootErrNoDowncast ==
    IF CurrentSpan = None THEN "NoEnabledSpan" ELSE ""

\* The error register_dist_tracing_root returns ("": Ok): without a current
\* span with_subscriber yields None and the closure, with its downcast, does
\* not run.
RootErr ==
    IF CurrentSpan = None THEN "NoEnabledSpan"
    ELSE IF ~isRegistry THEN "RegistrySubscriberNotRegistered"
    ELSE ""

register_dist_tracing_root(trace_id, remote_parent_span) ==
    LET cur == CurrentSpan
        err == RootErr
        ctx == RootCtx(trace_id, remote_parent_span)
    IN /\ nCalls < MaxCalls
       /\ nCalls' = nCalls + 1
       /\ IF err = ""
          THEN /\ registry' = Rooted(Unwrap(cur), ctx)
               /\ rooted' = [rooted EXCEPT ![Unwrap(cur)] = Some(ctx)]
          ELSE UNCHANGED <<registry, rooted>>
       /\ last' = Call("register_root", IF IsSome(cur) THEN Unwrap(cur) ELSE 0,
                       err, Some(ctx))
       /\ UNCHANGED <<stack, isRegistry, nextId, nextEvent, reported_spans,
                      reported_events>>

\* Mutant of CurrentCtxResult: the span id returned is the one the context
\* names as parent, when it names one.
CurrentCtxResultParent ==
    LET cur == CurrentSpan
    IN IF cur = None THEN <<"NoEnabledSpan", None>>
       ELSE IF ~isRegistry THEN <<"RegistrySubscriberNotRegistered", None>>
       ELSE LET s == registry[Unwrap(cur)]
            IN IF ~IsSome(s) \/ ~IsSome(Unwrap(s).ext.TraceCtx)
               THEN <<"NoParentNodeHasTraceCtx", None>>
               ELSE LET ctx == Unwrap(Unwrap(s).ext.TraceCtx)
                    IN <<"", Some(<<ctx.trace_id,
                                    IF IsSome(ctx.parent_span)
                                    THEN Unwrap(ctx.parent_span)
                                    ELSE Unwrap(Unwrap(s).ext.PromotedSpanId)>>)>>

\* Mutant of CurrentCtxResult: a current span without a TraceCtx answers with
\* the trace id of its parent in the registry, when that one holds a context.
CurrentCtxResultAncestor ==
    LET cur == CurrentSpan
    IN IF cur = None THEN <<"NoEnabledSpan", None>>
       ELSE IF ~isRegistry THEN <<"RegistrySubscriberNotRegistered", None>>
       ELSE LET s == Unwrap(registry[Unwrap(cur)])
                own == s.ext.TraceCtx
                up == IF IsSome(s.parent) THEN Ext(Unwrap(s.parent)).TraceCtx ELSE None
                found == IF IsSome(own) THEN own ELSE up
            IN IF ~IsSome(found)
               THEN <<"NoParentNodeHasTraceCtx", None>>
               ELSE <<"", Some(<<Unwrap(found).trace_id,
                                  Unwrap(s.ext.PromotedSpanId)>>)>>

\* What current_dist_trace_ctx returns: <<error, Option<(TraceId, SpanId)>>>.
CurrentCtxResult ==
    LET cur == CurrentSpan
    IN IF cur = None THEN <<"NoEnabledSpan", None>>
       ELSE IF ~isRegistry THEN <<"RegistrySubscriberNotRegistered", None>>
       ELSE LET s == registry[Unwrap(cur)]
            IN IF ~IsSome(s) \/ ~IsSome(Unwrap(s).ext.TraceCtx)
               THEN <<"NoParentNodeHasTraceCtx", None>>
               ELSE IF ~IsSome(Unwrap(s).ext.PromotedSpanId)
               THEN <<"NoParentNodeHasTraceCtx", None>>
               ELSE <<"", Some(<<Unwrap(Unwrap(s).ext.TraceCtx).trace_id,
                                  Unwrap(Unwrap(s).ext.PromotedSpanId)>>)>>

current_dist_trace_ctx ==
    LET cur == CurrentSpan
        res == CurrentCtxResult
        id == IF IsSome(cur) THEN Unwrap(cur) ELSE 0
    IN /\ last' = Call("current_ctx", id, res[1], res[2])
       /\ UNCHANGED <<registry, stack, isRegistry, nextId, nextEvent, nCalls,
                      reported_spans, reported_events, rooted>>

\* ------------------------------------------------------------------ on_event, step by step
\* on_event for an event that names its parent by Id, on a thread that holds
\* no handle of that span, while the callbacks above run on another thread.
\* on_event takes the parent's extensions lock three times: to read the
\* TraceCtx, to read the PromotedSpanId and to push onto the event list;
\* between two of them the other thread may run.
VARIABLES
    emitting    \* the on_event in progress: where it is and what it has read

rvars == <<emitting>>

Idle == [pc |-> "idle", parent |-> 0, ctx |-> None, event |-> None]

RInit == emitting = Idle

\* ctx.span(&parent_id).and_then(|s| s.extensions().get::<TraceCtx>().cloned()):
\* with a TraceCtx on_event goes on, without one the event is dropped.
on_event_get_ctx(parent_id) ==
    /\ emitting.pc = "idle"
    /\ parent_id < nextId
    /\ nCalls < MaxCalls
    /\ nCalls' = nCalls + 1
    /\ nextEvent' = nextEvent + 1
    /\ emitting' = IF IsSome(ParentTraceCtx(parent_id))
                   THEN [pc |-> "promoted", parent |-> parent_id,
                         ctx |-> ParentTraceCtx(parent_id),
                         event |-> Some([values |-> <<nextEvent>>])]
                   ELSE Idle
    /\ UNCHANGED <<registry, stack, isRegistry, nextId, reported_spans,
                   reported_events, last, rooted>>

\* ctx.span(&parent_id).expect(..) and
\* span.extensions().get::<PromotedSpanId>().expect(..): the event is built,
\* or an expect panics because the span or the slot is gone.
on_event_get_promoted ==
    /\ emitting.pc = "promoted"
    /\ emitting' =
           IF IsSome(registry[emitting.parent])
              /\ IsSome(Ext(emitting.parent).PromotedSpanId)
           THEN [emitting EXCEPT
                    !.pc = "push",
                    !.event = Some(ChildEvent(emitting.parent, Unwrap(emitting.ctx),
                                              Unwrap(emitting.event).values))]
           ELSE [emitting EXCEPT !.pc = "panicked"]
    /\ UNCHANGED vars

\* span.extensions_mut().get_mut::<Vec<Event>>().expect(..).push(event): the
\* event is attached, or the expect panics because the list is gone.
on_event_push ==
    /\ emitting.pc = "push"
    /\ IF IsSome(registry[emitting.parent])
          /\ IsSome(Ext(emitting.parent).Events)
       THEN /\ registry' = [registry EXCEPT ![emitting.parent] =
                    Some([Unwrap(@) EXCEPT !.ext.Events =
                              Some(PushEvent(Unwrap(@), Unwrap(emitting.event)))])]
            /\ emitting' = Idle
       ELSE /\ emitting' = [emitting EXCEPT !.pc = "panicked"]
            /\ UNCHANGED registry
    /\ UNCHANGED <<stack, isRegistry, nextId, nextEvent, nCalls, reported_spans,
                   reported_events, last, rooted>>

\* ------------------------------------------------------------------ export message
\* The timestamps and identifiers of one span on their way from on_new_span
\* over on_close to the protobuf Span that Otlp::report_span sends.  Time is
\* SystemTime: the wall clock, which may be set forward or backward, in
\* nanoseconds relative to UNIX_EPOCH (negative: before the epoch).
VARIABLES
    wall,       \* what SystemTime::now() returns
    opened,     \* the open span: its ids and its SpanInitAt, or None
    exported    \* the last closed span and the message made of it, or None

evars == <<wall, opened, exported>>

Clock == (0 - 1)..MaxClock
TraceIdInputs == {0, 135, 65537}
SpanIdInputs == {1, 258}
ParentIdInputs == {None, Some(0), Some(258)}

EInit ==
    /\ wall = 0
    /\ opened = None
    /\ exported = None

\* The wall clock advances or is set, forward or backward.
set_clock(t) ==
    /\ wall' = t
    /\ UNCHANGED <<opened, exported>>

\* SpanInitAt::new(): SystemTime::now() at the open.
SpanInitAt_new == wall

\* on_new_span of a traced span, as far as the message is concerned.
export_on_new_span(id, trace_id, parent_id) ==
    /\ opened = None
    /\ opened' = Some([id |-> id, trace_id |-> trace_id, parent_id |-> parent_id,
                       initialized_at |-> SpanInitAt_new])
    /\ UNCHANGED <<wall, exported>>

\* t.duration_since(UNIX_EPOCH), with Duration::ZERO for a time before the
\* epoch, as nanoseconds.  (The cast to u64 cuts what lies 584 years and
\* more after the epoch: out of the range of Clock.)
system_time_to_unix_nanos(t) == IF t < 0 THEN 0 ELSE t

\* The width least significant base-256 digits of n, the lowest first.
RECURSIVE Digits256(_, _)
Digits256(n, width) ==
    IF width = 0 THEN <<>>
    ELSE <<n % 256>> \o Digits256(n \div 256, width - 1)

\* Mutant of to_le_bytes: the most significant byte comes first.
to_be_bytes(n, width) ==
    [k \in 1..width |-> Digits256(n, width)[width + 1 - k]]

\* u128::to_le_bytes / u64::to_le_bytes: width bytes, least significant
\* first.
to_le_bytes(n, width) == Digits256(n, width)

\* The trace::Span on_close builds: completed_at is SystemTime::now() at the
\* close.
CompletedSpan(o) ==
    [id |-> o.id, trace_id |-> o.trace_id, parent_id |-> o.parent_id,
     initialized_at |-> o.initialized_at, completed_at |-> wall]

\* The protobuf Span Otlp::report_span makes of it.
ProtoSpan(span) ==
    [trace_id |-> to_le_bytes(span.trace_id, 16),
     span_id |-> to_le_bytes(span.id, 8),
     parent_span_id |-> IF IsSome(span.parent_id)
                        THEN to_le_bytes(Unwrap(span.parent_id), 8)
                        ELSE <<>>,
     start_time_unix_nano |-> system_time_to_unix_nanos(span.initialized_at),
     end_time_unix_nano |-> system_time_to_unix_nanos(span.completed_at)]

\* on_close of the traced span and Otlp::report_span.
export_on_close ==
    /\ opened # None
    /\ LET span == CompletedSpan(Unwrap(opened))
       IN exported' = Some([span |-> span, msg |-> ProtoSpan(span)])
    /\ opened' = None
    /\ UNCHANGED wall

\* ------------------------------------------------------------------ export worker
\* The OTLP adapter and its worker thread.  Otlp::report_span runs at the end
\* of on_close on the thread that closes the span and sends the span on the
\* channel; Worker::run_loop receives, buffers and POSTs on its own thread.
\* A span is [id, thread]: id numbers the on_close callbacks in the order in
\* which the registry invokes them, thread is the thread that runs it.
VARIABLES
    chan,       \* the mpsc channel: spans sent and not yet received
    open,       \* the Sender held by Otlp has not been dropped
    closing,    \* thread -> the span whose on_close callback it is running
    nextSent,   \* id of the next on_close callback
    spans,      \* run_loop's buffer
    due,        \* last_send.elapsed() >= send_interval
    ticks,      \* send intervals that have elapsed so far
    wpc,        \* the worker's place in run_loop: "recv", "send", "post",
                \* "done" (returned), "panicked" (unwound)
    posts,      \* the POST attempts so far: <<[batch, res, at]>>
    last_send,  \* the worker's last_send, in elapsed intervals
    panicked    \* the threads whose callback has panicked

wvars == <<chan, open, closing, nextSent, spans, due, ticks, wpc, posts,
           last_send, panicked>>

Threads == 1..NThreads
NoSpan == [id |-> 0, thread |-> 0]
\* What closing[t] holds while thread t runs an on_event callback for an
\* event without a parent.
NoParentEvent(t) == [id |-> 0, thread |-> t]

\* Worker::new and Otlp::new: an empty channel, last_send = Instant::now().
WInit ==
    /\ chan = <<>>
    /\ open = TRUE
    /\ closing = [t \in Threads |-> NoSpan]
    /\ nextSent = 1
    /\ spans = <<>>
    /\ due = FALSE
    /\ ticks = 0
    /\ wpc = "recv"
    /\ posts = <<>>
    /\ last_send = 0
    /\ panicked = {}

\* The registry invokes on_close on thread t; the layer and Otlp::report_span
\* build the protobuf Span up to the send.
otlp_on_close(t) ==
    /\ open
    /\ closing[t] = NoSpan
    /\ nextSent <= MaxSent
    /\ closing' = [closing EXCEPT ![t] = [id |-> nextSent, thread |-> t]]
    /\ nextSent' = nextSent + 1
    /\ UNCHANGED <<chan, open, spans, due, ticks, wpc, posts, last_send, panicked>>

\* The Receiver lives in the Worker, which the worker thread owns: it is
\* dropped when run_loop returns or unwinds.
RxAlive == wpc \notin {"done", "panicked"}

\* Mutant of otlp_report_span: the channel is a rendezvous channel, the send
\* returns when the worker is receiving.
otlp_report_span_rendezvous(t) ==
    /\ closing[t].id # 0
    /\ wpc = "recv"
    /\ chan' = Append(chan, closing[t])
    /\ closing' = [closing EXCEPT ![t] = NoSpan]
    /\ UNCHANGED <<open, nextSent, spans, due, ticks, wpc, posts, last_send, panicked>>

\* self.tx.send(span).expect(..), the last statement of Otlp::report_span:
\* the send on the unbounded channel returns at once, Ok while the Receiver
\* lives and Err when it is gone, and expect panics on the Err.
otlp_report_span(t) ==
    /\ closing[t].id # 0
    /\ IF RxAlive
       THEN chan' = Append(chan, closing[t]) /\ UNCHANGED panicked
       ELSE panicked' = panicked \cup {t} /\ UNCHANGED chan
    /\ closing' = [closing EXCEPT ![t] = NoSpan]
    /\ UNCHANGED <<open, nextSent, spans, due, ticks, wpc, posts, last_send>>

\* The registry invokes on_event on thread t for an event without a parent;
\* the layer calls Otlp::report_event.
otlp_on_event(t) ==
    /\ open
    /\ closing[t] = NoSpan
    /\ closing' = [closing EXCEPT ![t] = NoParentEvent(t)]
    /\ UNCHANGED <<chan, open, nextSent, spans, due, ticks, wpc, posts,
                   last_send, panicked>>

\* Mutant of otlp_report_event: the event is sent to the worker as well.
otlp_report_event_sends(t) ==
    /\ closing[t] = NoParentEvent(t)
    /\ chan' = Append(chan, closing[t])
    /\ closing' = [closing EXCEPT ![t] = NoSpan]
    /\ UNCHANGED <<open, nextSent, spans, due, ticks, wpc, posts, last_send, panicked>>

\* Otlp::report_event: the event is dropped and the callback returns.
otlp_report_event(t) ==
    /\ closing[t] = NoParentEvent(t)
    /\ closing' = [closing EXCEPT ![t] = NoSpan]
    /\ UNCHANGED <<chan, open, nextSent, spans, due, ticks, wpc, posts,
                   last_send, panicked>>

\* The layer, and with it Otlp and its Sender, is dropped; no callback
\* borrows it at that moment.
drop_sender ==
    /\ open
    /\ \A t \in Threads : closing[t] = NoSpan
    /\ open' = FALSE
    /\ UNCHANGED <<chan, closing, nextSent, spans, due, ticks, wpc, posts,
                   last_send, panicked>>

\* Time passes: the send interval has elapsed since last_send.
elapse ==
    /\ ~due
    /\ ticks < MaxTicks
    /\ due' = TRUE
    /\ ticks' = ticks + 1
    /\ UNCHANGED <<chan, open, closing, nextSent, spans, wpc, posts,
                   last_send, panicked>>

\* Mutant of push: the received span is put in front of the buffer.
push_front(buffer, span) == <<span>> \o buffer

\* spans.push(span)
push(buffer, span) == Append(buffer, span)

\* recv_timeout returns Ok(span): the oldest span in the channel, also after
\* the sender was dropped.
recv_Ok ==
    /\ wpc = "recv"
    /\ chan # <<>>
    /\ spans' = push(spans, Head(chan))
    /\ chan' = Tail(chan)
    /\ wpc' = "send"
    /\ UNCHANGED <<open, closing, nextSent, due, ticks, posts, last_send, panicked>>

\* recv_timeout returns Err(Timeout): nothing arrived before
\* last_send + send_interval, which has now passed.
recv_Timeout ==
    /\ wpc = "recv"
    /\ chan = <<>>
    /\ open
    /\ due \/ ticks < MaxTicks
    /\ due' = TRUE
    /\ ticks' = IF due THEN ticks ELSE ticks + 1
    /\ wpc' = "send"
    /\ UNCHANGED <<chan, open, closing, nextSent, spans, posts, last_send, panicked>>

\* Mutant of AfterDisconnected: a closed channel is handled like a timeout.
AfterDisconnectedContinue == "send"

\* Err(Disconnected) => break
AfterDisconnected == "done"

\* recv_timeout returns Err(Disconnected): the channel is empty and the
\* sender is gone.  Leaving run_loop drops the buffer.
recv_Disconnected ==
    /\ wpc = "recv"
    /\ chan = <<>>
    /\ ~open
    /\ wpc' = AfterDisconnected
    /\ spans' = IF AfterDisconnected = "done" THEN <<>> ELSE spans
    /\ UNCHANGED <<chan, open, closing, nextSent, due, ticks, posts,
                   last_send, panicked>>

\* What the HTTP client returns for a POST: Ok, Ok with a response whose
\* partial_success reports rejected spans, or Err.
PostResults == {"ok", "partial", "err"}

\* Mutant of AfterPost: the batch of a failed POST is not put back.
AfterPostDrops(batch, res) == <<>>

\* Mutant of AfterPost: the batch of a failed POST is put back without its
\* oldest span.
AfterPostRestoreTail(batch, res) ==
    IF res = "err" THEN Tail(batch) ELSE <<>>

\* Mutant of AfterPost: a response that reports rejected spans is handled as
\* a failed POST.
AfterPostPartialRestores(batch, res) ==
    IF res \in {"err", "partial"} THEN batch ELSE <<>>

\* The buffer after the POST of batch: mem::take left it empty, and the Err
\* arm moves the batch back from the request.
AfterPost(batch, res) ==
    IF res = "err" THEN batch ELSE <<>>

\* Mutant of interval_elapsed: the worker never finds the interval elapsed.
interval_elapsed_never == FALSE

\* Mutant of interval_elapsed: the worker flushes in every iteration.
interval_elapsed_always == TRUE

\* self.last_send.elapsed() >= self.send_interval
interval_elapsed == due

\* Mutant of is_empty: an empty buffer is sent like any other.
is_empty_never(buffer) == FALSE

\* spans.is_empty()
is_empty(buffer) == buffer = <<>>

\* The rest of the loop body up to the request: if the interval has elapsed,
\* reset last_send and, unless the buffer is empty, move the buffer into a
\* request and start the POST.  While the worker is in send_bytes
\* (wpc = "post") the variable spans holds the spans of the request.
send_interval ==
    /\ wpc = "send"
    /\ IF interval_elapsed
       THEN /\ due' = FALSE
            /\ last_send' = ticks
            /\ wpc' = IF is_empty(spans) THEN "recv" ELSE "post"
       ELSE /\ UNCHANGED <<due, last_send>>
            /\ wpc' = "recv"
    /\ UNCHANGED <<chan, open, closing, nextSent, spans, ticks, posts, panicked>>

\* send_bytes returns: the attempt is over, and on Err the spans go back
\* from the request into the buffer.
send_bytes ==
    /\ wpc = "post"
    /\ \E res \in PostResults :
           /\ posts' = Append(posts, [batch |-> spans, res |-> res, at |-> last_send])
           /\ spans' = AfterPost(spans, res)
    /\ wpc' = "recv"
    /\ UNCHANGED <<chan, open, closing, nextSent, due, ticks, last_send, panicked>>

run_loop ==
    recv_Ok \/ recv_Timeout \/ recv_Disconnected \/ send_interval \/ send_bytes

WNext ==
    \/ \E t \in Threads : otlp_on_close(t) /\ UNCHANGED <<vars, evars, rvars>>
    \/ \E t \in Threads : otlp_report_span(t) /\ UNCHANGED <<vars, evars, rvars>>
    \/ drop_sender /\ UNCHANGED <<vars, evars, rvars>>
    \/ elapse /\ UNCHANGED <<vars, evars, rvars>>
    \/ recv_Ok /\ UNCHANGED <<vars, evars, rvars>>
    \/ recv_Timeout /\ UNCHANGED <<vars, evars, rvars>>
    \/ recv_Disconnected /\ UNCHANGED <<vars, evars, rvars>>
    \/ send_interval /\ UNCHANGED <<vars, evars, rvars>>
    \/ send_bytes /\ UNCHANGED <<vars, evars, rvars>>

\* instant_next_send: last_send + send_interval panics when the sum
\* overflows Instant, which it does for a send_interval near Duration::MAX.
\* The worker thread unwinds in its first iteration and drops the Receiver.
instant_next_send_overflows ==
    /\ wpc = "recv"
    /\ wpc' = "panicked"
    /\ UNCHANGED <<chan, open, closing, nextSent, spans, due, ticks, posts,
                   last_send, panicked>>

\* The adapter built with a send interval that overflows: the worker never
\* gets to recv_timeout.
CNext ==
    \/ \E t \in Threads : otlp_on_close(t) /\ UNCHANGED <<vars, evars, rvars>>
    \/ \E t \in Threads : otlp_report_span(t) /\ UNCHANGED <<vars, evars, rvars>>
    \/ \E t \in Threads : otlp_on_event(t) /\ UNCHANGED <<vars, evars, rvars>>
    \/ \E t \in Threads : otlp_report_event(t) /\ UNCHANGED <<vars, evars, rvars>>
    \/ drop_sender /\ UNCHANGED <<vars, evars, rvars>>
    \/ elapse /\ UNCHANGED <<vars, evars, rvars>>
    \/ instant_next_send_overflows /\ UNCHANGED <<vars, evars, rvars>>

\* The adapter with both of its callbacks: spans and parentless events.
ANext ==
    \/ WNext
    \/ \E t \in Threads : otlp_on_event(t) /\ UNCHANGED <<vars, evars, rvars>>
    \/ \E t \in Threads : otlp_report_event(t) /\ UNCHANGED <<vars, evars, rvars>>

\* ------------------------------------------------------------------ specification
AttrInputs == {<<"attr">>}
RecordInputs == {<<"attr", "field">>}
ParentInputs == {None} \cup {Some(i) : i \in Live}

\* The callbacks and calls of the lifecycle layer; the worker is not involved.
Next ==
    \/ \E attrs \in AttrInputs, p \in ParentInputs :
           on_new_span(attrs, p) /\ UNCHANGED <<wvars, evars, rvars>>
    \/ \E id \in SpanIds, values \in RecordInputs :
           on_record(id, values) /\ UNCHANGED <<wvars, evars, rvars>>
    \/ \E id \in SpanIds : enter(id) /\ UNCHANGED <<wvars, evars, rvars>>
    \/ exit /\ UNCHANGED <<wvars, evars, rvars>>
    \/ \E ev \in EventInputs : on_event(ev) /\ UNCHANGED <<wvars, evars, rvars>>
    \/ \E id \in SpanIds : on_close(id) /\ UNCHANGED <<wvars, evars, rvars>>
    \/ \E in \in RootInputs :
           register_dist_tracing_root(in[1], in[2]) /\ UNCHANGED <<wvars, evars, rvars>>
    \/ current_dist_trace_ctx /\ UNCHANGED <<wvars, evars, rvars>>

\* on_event on one thread, step by step, and the callbacks and calls of
\* another thread that opens, enters, roots and closes spans.
RNext ==
    \/ \E attrs \in AttrInputs, p \in ParentInputs :
           on_new_span(attrs, p) /\ UNCHANGED <<wvars, evars, rvars>>
    \/ \E id \in SpanIds : enter(id) /\ UNCHANGED <<wvars, evars, rvars>>
    \/ exit /\ UNCHANGED <<wvars, evars, rvars>>
    \/ \E id \in SpanIds : on_close(id) /\ UNCHANGED <<wvars, evars, rvars>>
    \/ \E in \in RootInputs :
           register_dist_tracing_root(in[1], in[2]) /\ UNCHANGED <<wvars, evars, rvars>>
    \/ \E parent_id \in SpanIds :
           on_event_get_ctx(parent_id) /\ UNCHANGED <<wvars, evars>>
    \/ on_event_get_promoted /\ UNCHANGED <<wvars, evars>>
    \/ on_event_push /\ UNCHANGED <<wvars, evars>>

\* The lifecycle layer under the Registry with two threads.
RaceInit == Init /\ isRegistry /\ WInit /\ EInit /\ RInit
RaceSpec == RaceInit /\ [][RNext]_<<vars, wvars, evars, rvars>>

\* The steps of one span and of the wall clock.
ENext ==
    \/ \E t \in Clock : set_clock(t) /\ UNCHANGED <<vars, wvars, rvars>>
    \/ \E id \in SpanIdInputs, trace_id \in TraceIdInputs, parent_id \in ParentIdInputs :
           export_on_new_span(id, trace_id, parent_id) /\ UNCHANGED <<vars, wvars, rvars>>
    \/ export_on_close /\ UNCHANGED <<vars, wvars, rvars>>

\* The lifecycle layer with the recording sink of its tests; no worker runs.
SpecInit == Init /\ WInit /\ EInit /\ RInit
Spec == SpecInit /\ [][Next]_<<vars, wvars, evars, rvars>>

\* The OTLP adapter and its worker; the spans come from on_close callbacks
\* of a layer under the Registry, whose state is left out.
WorkerInit == Init /\ isRegistry /\ WInit /\ EInit /\ RInit
WorkerSpec == WorkerInit /\ [][WNext]_<<vars, wvars, evars, rvars>>

\* The same with the on_event callbacks of parentless events.
AdapterSpec == WorkerInit /\ [][ANext]_<<vars, wvars, evars, rvars>>

\* The adapter built by Builder::send_interval(Duration::MAX).
CrashSpec == WorkerInit /\ [][CNext]_<<vars, wvars, evars, rvars>>

\* The worker thread is scheduled, recv_timeout returns and so does the POST.
WorkerLive ==
    WorkerSpec /\ WF_<<vars, wvars, evars, rvars>>(run_loop /\ UNCHANGED <<vars, evars, rvars>>)

\* One span from its open to the message report_span sends, under a wall
\* clock that may be set; the registry and the worker are not involved.
ExportInit == Init /\ isRegistry /\ WInit /\ EInit /\ RInit
ExportSpec == ExportInit /\ [][ENext]_<<vars, wvars, evars, rvars>>

\* ------------------------------------------------------------------ reading a step
\* The extensions and parent of span i after the step.
ExtN(i) == Unwrap(registry'[i]).ext
\* Span i is opened, closed by this step.
Opens(i) == registry[i] = None /\ registry'[i] # None
Closes(i) == last'.op = "on_close" /\ last'.id = i
\* The step is a successful register_dist_tracing_root on span i.
Roots(i) == last'.op = "register_root" /\ last'.err = "" /\ last'.id = i
\* The step is an on_event whose parent is span i (0: the event has no parent).
Emits(i) == last'.op = "on_event" /\ last'.id = i
\* The last report_span call after the step.
LastReported == reported_spans'[Len(reported_spans')]
\* The step made exactly one report_span call, no report_span call.
ReportsOne ==
    /\ Len(reported_spans') = Len(reported_spans) + 1
    /\ SubSeq(reported_spans', 1, Len(reported_spans)) = reported_spans
ReportsNone == reported_spans' = reported_spans

Range(seq) == {seq[k] : k \in 1..Len(seq)}
ReportedIds == {r.span.id : r \in Range(reported_spans)}
\* Spans opened and closed again.
Closed == {i \in SpanIds : i < nextId /\ registry[i] = None}

\* ------------------------------------------------------------------ claims

\* C1: on_close(id) calls report_span exactly once when the span's extensions
\* hold a TraceCtx at that moment and not at all otherwise; no other callback
\* calls report_span; so a span is reported at most once, and only at its
\* close (no open span has been reported, no id is reported twice).
C1_Step ==
    IF \E i \in SpanIds : Closes(i) /\ HasCtx(i)
    THEN ReportsOne /\ LastReported.span.id = promote_span_id(last'.id)
    ELSE ReportsNone
C1_State ==
    /\ \A k, l \in 1..Len(reported_spans) :
           reported_spans[k].span.id = reported_spans[l].span.id => k = l
    /\ \A i \in Live : promote_span_id(i) \notin ReportedIds
C1_ReportedExactlyAtClose == [][C1_Step]_vars /\ []C1_State

\* A traced span has just been closed and reported, and an untraced span was
\* closed without a report.
C1_Witness ==
    /\ last.op = "on_close"
    /\ promote_span_id(last.id) \in ReportedIds
    /\ \E i \in Closed : promote_span_id(i) \notin ReportedIds

\* C2: at on_new_span of a span S with parent P, S receives
\* TraceCtx {trace_id: P's trace_id, parent_span: Some(P's promoted span id)}
\* when P's extensions hold a TraceCtx at that moment; without a parent, or
\* with a parent that holds no TraceCtx, S receives no TraceCtx.
C2_Step ==
    \A s \in SpanIds : Opens(s) =>
        LET p == Unwrap(registry'[s]).parent
        IN ExtN(s).TraceCtx =
              IF IsSome(p) /\ HasCtx(Unwrap(p))
              THEN Some([trace_id |-> Unwrap(Ext(Unwrap(p)).TraceCtx).trace_id,
                         parent_span |-> Some(promote_span_id(Unwrap(p)))])
              ELSE None
C2_InheritAtOpen == [][C2_Step]_vars

\* A span was opened under a traced parent and holds the inherited context,
\* and a span was just opened under an untraced parent.
C2_Witness ==
    \E s \in Live : /\ IsSome(ParentOf(s))
                    /\ HasCtx(Unwrap(ParentOf(s)))
                    /\ HasCtx(s)
                    /\ Unwrap(Ext(s).TraceCtx).parent_span = ParentOf(s)
                    /\ s = nextId - 1
                    /\ last = NoCall

\* The trace context of open span i before the step.
Ctx(i) == Unwrap(Ext(i).TraceCtx)
\* The events pending on open span i.
Pending(i) == Unwrap(Ext(i).Events)
\* The step leaves span i open.
StaysOpen(i) == IsSome(registry[i]) /\ IsSome(registry'[i])

\* C3: trace context is copied to a child once, at open.  A span's TraceCtx
\* changes only by a successful register_dist_tracing_root made while that
\* span itself is current: a call on a span P leaves the TraceCtx of every
\* child of P as it was (present or absent, trace_id and parent_span), and a
\* child is reported with, or discarded for want of, the context it holds.
C3_Step ==
    /\ \A c \in SpanIds :
           (StaysOpen(c) /\ ExtN(c).TraceCtx # Ext(c).TraceCtx) => Roots(c)
    /\ \A p \in SpanIds : Roots(p) =>
           \A c \in Children(p) : StaysOpen(c) /\ ExtN(c).TraceCtx = Ext(c).TraceCtx
    /\ \A c \in SpanIds : Closes(c) =>
           IF HasCtx(c)
           THEN /\ ReportsOne
                /\ LastReported.span.trace_id = Ctx(c).trace_id
                /\ LastReported.span.parent_id = Ctx(c).parent_span
           ELSE ReportsNone
C3_CopiedOnceAtOpen == [][C3_Step]_vars

\* register_dist_tracing_root has just succeeded on a span that has an open
\* child, and the child does not hold what it would inherit now.
C3_Witness ==
    /\ last.op = "register_root" /\ last.err = ""
    /\ \E c \in Children(last.id) :
           Ext(c).TraceCtx # Some([trace_id |-> Ctx(last.id).trace_id,
                                   parent_span |-> Some(promote_span_id(last.id))])

\* C4: the parent_id of a span reported at on_close is p when its TraceCtx
\* carried parent_span = Some(p); otherwise it is the promoted id of the
\* span's parent in the registry when there is one, and None only when there
\* is none.
C4_Step ==
    \A i \in SpanIds : (Closes(i) /\ HasCtx(i)) =>
        LastReported.span.parent_id =
            IF IsSome(Ctx(i).parent_span) THEN Ctx(i).parent_span
            ELSE IF IsSome(ParentOf(i))
            THEN Some(Unwrap(Ext(Unwrap(ParentOf(i))).PromotedSpanId))
            ELSE None
C4_ParentIdFallsBackOnRegistry == [][C4_Step]_vars

\* C5: an event emitted while its parent span holds a TraceCtx is appended to
\* that span's pending events and goes neither to report_event nor to
\* report_span then; the pending events change in no other way before the
\* close; the report_span call of the close carries exactly the pending
\* events, in emission order; so no event is delivered twice or elsewhere.
Increasing(events) ==
    \A k, l \in 1..Len(events) : k < l => events[k].values[1] < events[l].values[1]
ValuesOf(events) == {e.values : e \in Range(events)}
C5_Step ==
    /\ \A p \in SpanIds : (Emits(p) /\ HasCtx(p)) =>
           /\ Len(Unwrap(ExtN(p).Events)) = Len(Pending(p)) + 1
           /\ SubSeq(Unwrap(ExtN(p).Events), 1, Len(Pending(p))) = Pending(p)
           /\ Unwrap(ExtN(p).Events)[Len(Pending(p)) + 1].values = <<nextEvent>>
           /\ reported_events' = reported_events
           /\ ReportsNone
    /\ \A i \in SpanIds : (StaysOpen(i) /\ ExtN(i).Events # Ext(i).Events) =>
           (Emits(i) /\ HasCtx(i))
    /\ \A i \in SpanIds : (Closes(i) /\ HasCtx(i)) =>
           (ReportsOne /\ LastReported.events = Pending(i))
C5_State ==
    /\ \A i \in Live : Increasing(Pending(i))
    /\ \A r \in Range(reported_spans) : Increasing(r.events)
    /\ \A i, j \in Live : i # j => ValuesOf(Pending(i)) \cap ValuesOf(Pending(j)) = {}
    /\ \A k, l \in 1..Len(reported_spans) : k # l =>
           ValuesOf(reported_spans[k].events) \cap ValuesOf(reported_spans[l].events) = {}
    /\ \A i \in Live, r \in Range(reported_spans) :
           ValuesOf(Pending(i)) \cap ValuesOf(r.events) = {}
    /\ \A i \in Live : ValuesOf(Pending(i)) \cap ValuesOf(reported_events) = {}
    /\ \A r \in Range(reported_spans) :
           ValuesOf(r.events) \cap ValuesOf(reported_events) = {}
C5_AttachedEventsDeliveredAtClose == [][C5_Step]_vars /\ []C5_State

\* A span was just closed and reported together with two events.
C5_Witness ==
    /\ last.op = "on_close"
    /\ \E r \in Range(reported_spans) :
           r.span.id = promote_span_id(last.id) /\ Len(r.events) = 2

\* C6: every event delivered in a report_span call has parent_id equal to the
\* reported span's id and trace_id equal to Some(the reported span's
\* trace_id), also when register_dist_tracing_root was called on the span
\* after events were attached to it.
C6_EventsMatchReportedSpan ==
    \A r \in Range(reported_spans) : \A e \in Range(r.events) :
        /\ e.parent_id = Some(r.span.id)
        /\ e.trace_id = Some(r.span.trace_id)

\* C7: an event without a parent (no explicit parent, and explicitly root or
\* no current span) is published during on_event through report_event with
\* trace_id = None and parent_id = None; it is attached to no span and causes
\* no report_span call.
C7_Step ==
    last'.op = "on_event" =>
        LET ev == Unwrap(last'.val)
        IN (ev.kind # "explicit" /\ (ev.kind = "root" \/ CurrentSpan = None)) =>
               /\ reported_events' =
                      Append(reported_events,
                             [trace_id |-> None, parent_id |-> None,
                              values |-> <<nextEvent>>])
               /\ registry' = registry
               /\ ReportsNone
C7_ParentlessEventPublished == [][C7_Step]_vars

\* An explicitly root event was just emitted while a traced span was current,
\* and report_event received it.
C7_Witness ==
    /\ last.op = "on_event"
    /\ Unwrap(last.val).kind = "root"
    /\ stack # <<>>
    /\ HasCtx(Unwrap(CurrentSpan))
    /\ reported_events # <<>>
    /\ reported_events[Len(reported_events)].values = <<nextEvent - 1>>

\* C8: an event whose parent span holds no TraceCtx at emission is dropped:
\* on_event changes no span and reports nothing, and since an event enters a
\* pending list or a report only in its own on_event, it never shows up
\* later, whatever the parent acquires.  While no register_dist_tracing_root
\* has succeeded no span holds a TraceCtx, report_span is not called and only
\* parentless events are reported.
AllEventValues ==
    UNION {ValuesOf(Pending(i)) : i \in Live}
        \cup UNION {ValuesOf(r.events) : r \in Range(reported_spans)}
        \cup ValuesOf(reported_events)
NoTrace ==
    /\ reported_spans = <<>>
    /\ \A i \in Live : ~HasCtx(i) /\ Pending(i) = <<>>
    /\ \A e \in Range(reported_events) : e.parent_id = None /\ e.trace_id = None
C8_Step ==
    /\ \A p \in SpanIds : (Emits(p) /\ ~HasCtx(p)) =>
           /\ registry' = registry
           /\ reported_events' = reported_events
           /\ ReportsNone
    /\ AllEventValues' \subseteq
           AllEventValues \cup (IF last'.op = "on_event" THEN {<<nextEvent>>} ELSE {})
    /\ (NoTrace /\ ~(\E i \in SpanIds : Roots(i))) => NoTrace'
C8_State ==
    /\ \A v \in AllEventValues : v[1] < nextEvent
    /\ ~isRegistry => NoTrace
C8_UntracedParentDropsEvent == [][C8_Step]_vars /\ []C8_State

\* The only span ever opened holds a TraceCtx now, an event was emitted
\* before it did, and the event is in no pending list and no report.
C8_Witness ==
    /\ nextId = 2 /\ HasCtx(1)
    /\ nextEvent > 1
    /\ AllEventValues = {}

\* C9: a successful register_dist_tracing_root(t, r) sets the TraceCtx of the
\* current span to exactly {trace_id: t, parent_span: r}, whatever it held,
\* and changes nothing else of that span and nothing of any other span; an
\* open span holds the values of the last call made on it, and these are the
\* ones reported at its close.
C9_Step ==
    /\ \A i \in SpanIds : Roots(i) =>
           /\ ExtN(i).TraceCtx = last'.val
           /\ Unwrap(last'.val) \in {RootCtx(in[1], in[2]) : in \in RootInputs}
           /\ rooted'[i] = last'.val
           /\ [ExtN(i) EXCEPT !.TraceCtx = None] = [Ext(i) EXCEPT !.TraceCtx = None]
           /\ Unwrap(registry'[i]).parent = ParentOf(i)
           /\ \A j \in SpanIds \ {i} : registry'[j] = registry[j]
           /\ ReportsNone /\ reported_events' = reported_events
    /\ \A i \in SpanIds : (Closes(i) /\ IsSome(rooted[i])) =>
           /\ ReportsOne
           /\ LastReported.span.trace_id = Unwrap(rooted[i]).trace_id
           /\ LastReported.span.parent_id = Unwrap(rooted[i]).parent_span
C9_State ==
    \A i \in SpanIds : IsSome(rooted[i]) => (HasCtx(i) /\ Ext(i).TraceCtx = rooted[i])
C10_Step ==
    \A i \in SpanIds : (Closes(i) /\ HasCtx(i)) =>
        LastReported.span.id = Unwrap(Ext(i).PromotedSpanId)
C10_State ==
    /\ \A i \in Live : Ext(i).PromotedSpanId = Some(promote_span_id(i))
    /\ (last.op = "current_ctx" /\ last.id # 0) =>
           IF HasCtx(last.id)
           THEN /\ last.err = ""
                /\ last.val = Some(<<Ctx(last.id).trace_id,
                                     Unwrap(Ext(last.id).PromotedSpanId)>>)
           ELSE last.err # "" /\ last.val = None
C10_CurrentContextOfCurrentSpan == [][C10_Step]_vars /\ []C10_State

\* current_dist_trace_ctx has just succeeded in a span whose parent is in
\* another trace.
C10_Witness ==
    /\ last.op = "current_ctx" /\ last.err = ""
    /\ IsSome(ParentOf(last.id))
    /\ HasCtx(Unwrap(ParentOf(last.id)))
    /\ Ctx(Unwrap(ParentOf(last.id))).trace_id # Unwrap(last.val)[1]

\* C11 as stated: current_dist_trace_ctx fails with NoParentNodeHasTraceCtx
\* whenever a span is current and holds no TraceCtx, and with NoEnabledSpan
\* when no span is current.
C11_ErrorsAsStated ==
    last.op = "current_ctx" =>
        IF last.id = 0 THEN last.err = "NoEnabledSpan"
        ELSE ~HasCtx(last.id) => last.err = "NoParentNodeHasTraceCtx"

\* C11 (amended): current_dist_trace_ctx fails with NoEnabledSpan when no
\* span is current; when a span is current it fails with
\* RegistrySubscriberNotRegistered under a subscriber that is not the
\* Registry, and under the Registry with NoParentNodeHasTraceCtx when the
\* span holds no TraceCtx, whatever its ancestors hold; in every case the
\* call changes no span's extensions and reports nothing.
C11_Step ==
    last'.op = "current_ctx" =>
        /\ registry' = registry
        /\ reported_spans' = reported_spans
        /\ reported_events' = reported_events
C11_State ==
    last.op = "current_ctx" =>
        IF last.id = 0 THEN last.err = "NoEnabledSpan" /\ last.val = None
        ELSE IF ~isRegistry
        THEN last.err = "RegistrySubscriberNotRegistered" /\ last.val = None
        ELSE ~HasCtx(last.id) =>
                 (last.err = "NoParentNodeHasTraceCtx" /\ last.val = None)
C11_CurrentContextErrors == [][C11_Step]_vars /\ []C11_State

\* current_dist_trace_ctx has just failed with NoParentNodeHasTraceCtx in a
\* span whose parent holds a TraceCtx.
C11_Witness ==
    /\ last.op = "current_ctx" /\ last.err = "NoParentNodeHasTraceCtx"
    /\ last.id # 0
    /\ IsSome(ParentOf(last.id))
    /\ HasCtx(Unwrap(ParentOf(last.id)))

\* C12: register_dist_tracing_root fails with NoEnabledSpan when no span is
\* current, and with RegistrySubscriberNotRegistered when a span is current
\* under a subscriber that is not the Registry; it succeeds otherwise; a call
\* that fails leaves the TraceCtx (and everything else) of every live span
\* unchanged and reports nothing.
C12_Step ==
    (last'.op = "register_root" /\ nCalls' # nCalls) =>
        /\ CurrentSpan = None => last'.err = "NoEnabledSpan"
        /\ (CurrentSpan # None /\ ~isRegistry) =>
               last'.err = "RegistrySubscriberNotRegistered"
        /\ (CurrentSpan # None /\ isRegistry) => last'.err = ""
        /\ last'.err # "" =>
               /\ registry' = registry
               /\ rooted' = rooted
               /\ reported_spans' = reported_spans
               /\ reported_events' = reported_events
C12_RootErrors == [][C12_Step]_vars

\* register_dist_tracing_root has just failed with NoEnabledSpan while a live
\* span holds a TraceCtx other than the one the call was given.
C12_Witness ==
    /\ last.op = "register_root" /\ last.err = "NoEnabledSpan"
    /\ \E i \in Live : HasCtx(i) /\ Ext(i).TraceCtx # last.val

\* C13: a span reported with parent_id = Some(p) was either rooted by
\* register_dist_tracing_root, and p is the remote_parent_span of the last
\* such call on it, or it was never rooted, and p is the promoted id of its
\* parent in the registry; no other value (its own id, an ancestor further
\* up, a trace id) is ever reported as parent_id.
RemoteParents == {Unwrap(in[2]) : in \in {x \in RootInputs : IsSome(x[2])}}
C13_Step ==
    \A i \in SpanIds :
        (Closes(i) /\ HasCtx(i) /\ IsSome(LastReported.span.parent_id)) =>
            IF IsSome(rooted[i])
            THEN LastReported.span.parent_id = Unwrap(rooted[i]).parent_span
            ELSE /\ IsSome(ParentOf(i))
                 /\ LastReported.span.parent_id =
                        Some(promote_span_id(Unwrap(ParentOf(i))))
C13_State ==
    \A r \in Range(reported_spans) : IsSome(r.span.parent_id) =>
        /\ Unwrap(r.span.parent_id) \in
               RemoteParents \cup {promote_span_id(i) : i \in SpanIds}
        /\ Unwrap(r.span.parent_id) # r.span.id
C13_ParentIdRemoteOrDynamic == [][C13_Step]_vars /\ []C13_State

\* Two spans were reported: first a child naming its registry parent, then
\* that parent naming the remote parent it was rooted with.
C13_Witness ==
    /\ last.op = "on_close"
    /\ Len(reported_spans) = 2
    /\ reported_spans[1].span.parent_id = Some(reported_spans[2].span.id)
    /\ IsSome(reported_spans[2].span.parent_id)
    /\ Unwrap(reported_spans[2].span.parent_id) \in RemoteParents

\* C14: the report_span calls seen by the sink are the on_close callbacks of
\* traced spans, in the same order: every on_close of a traced span appends
\* one record for that span at the end and no other step changes the
\* sequence.  A span opened under a traced span is reported before it: a
\* record that names another record's span as parent comes first, and no
\* open span names a reported span as parent.  A registered root is
\* reported after every span opened under it, with parent_id equal to the
\* remote parent and trace_id equal to the trace id it was registered with.
C14_Step ==
    /\ IF \E i \in SpanIds : Closes(i) /\ HasCtx(i)
       THEN /\ reported_spans' = Append(reported_spans, LastReported)
            /\ LastReported.span.id = Unwrap(Ext(last'.id).PromotedSpanId)
       ELSE reported_spans' = reported_spans
    /\ \A i \in SpanIds : (Closes(i) /\ IsSome(rooted[i])) =>
           /\ LastReported.span.parent_id = Unwrap(rooted[i]).parent_span
           /\ LastReported.span.trace_id = Unwrap(rooted[i]).trace_id
           /\ Children(i) = {}
C14_State ==
    /\ \A k, l \in 1..Len(reported_spans) :
           reported_spans[k].span.parent_id = Some(reported_spans[l].span.id) => k < l
    /\ \A c \in Live : (HasCtx(c) /\ IsSome(Ctx(c).parent_span)) =>
           Unwrap(Ctx(c).parent_span) \notin ReportedIds
C14_ReportsInCloseOrder == [][C14_Step]_vars /\ []C14_State

\* The scenario of test_instrument within the bounds: f was registered with
\* trace id 135 and remote parent 246, g was opened, closed and reported
\* under it, then f was closed and reported last.
C14_Witness ==
    /\ last.op = "on_close"
    /\ Len(reported_spans) = 2
    /\ reported_spans[2].span.id = promote_span_id(last.id)
    /\ reported_spans[2].span.parent_id = Some(246)
    /\ reported_spans[2].span.trace_id = 135
    /\ reported_spans[1].span.parent_id = Some(promote_span_id(last.id))
    /\ reported_spans[1].span.trace_id = 135
    /\ Len(reported_spans[1].events) = 1

\* C15: entering or exiting a span, any number of times and in any
\* interleaving with other spans, changes no span's extensions and reports
\* nothing.  What is reported does not depend on it: the record of a closed
\* span is made of the extensions the span holds at its close, and a span
\* that was never registered as a root holds, from its open to its close,
\* either no TraceCtx or one that names its registry parent.
C15_Step ==
    /\ stack' # stack =>
           /\ registry' = registry
           /\ reported_spans' = reported_spans
           /\ reported_events' = reported_events
    /\ \A i \in SpanIds : (Closes(i) /\ HasCtx(i)) =>
           LastReported =
               [span |-> [id |-> Unwrap(Ext(i).PromotedSpanId),
                          trace_id |-> Ctx(i).trace_id,
                          parent_id |-> Ctx(i).parent_span,
                          follows_from |-> Ext(i).FollowsFrom,
                          values |-> Unwrap(Ext(i).Visitor)],
                events |-> Pending(i)]
C15_State ==
    \A s \in Live : (~IsSome(rooted[s]) /\ HasCtx(s)) =>
        /\ IsSome(ParentOf(s))
        /\ Ctx(s).parent_span = Some(promote_span_id(Unwrap(ParentOf(s))))
C15_EnterExitChangeNothing == [][C15_Step]_vars /\ []C15_State

\* A child that inherited its context was entered while its parent was not,
\* an event was attached to it, and the parent was then entered again on top
\* of it: an interleaving that synchronous nesting does not produce.
C15_Witness ==
    /\ last = NoCall
    /\ Len(stack) = 2
    /\ ParentOf(stack[1]) = Some(stack[2])
    /\ ~IsSome(rooted[stack[1]])
    /\ HasCtx(stack[1])
    /\ Pending(stack[1]) # <<>>
    /\ IsSome(rooted[stack[2]])

\* ------------------------------------------------------------------ reading a worker step
\* The step is a POST attempt; the attempt it made.
Posted == Len(posts') = Len(posts) + 1
LastPost == posts'[Len(posts')]
\* The spans of the k-th POST attempt; the attempt succeeded for the client.
Batch(k) == Range(posts[k].batch)
Succeeded(k) == posts[k].res # "err"
\* a is a prefix of b.
IsPrefix(a, b) == Len(a) <= Len(b) /\ SubSeq(b, 1, Len(a)) = a
\* The worker has left run_loop.
Done == wpc = "done"

\* C16: when a POST fails the worker puts every span of the batch back into
\* its buffer, in the same order; the next POST attempt carries all of them,
\* in that order, ahead of what arrived since; and as long as the worker has
\* not seen the channel closed a buffered span leaves the buffer only by a
\* POST that succeeds.
C16_Step ==
    /\ (Posted /\ LastPost.res = "err") =>
           (LastPost.batch = spans /\ spans' = LastPost.batch)
    /\ \A k \in 1..Len(spans) :
           \/ k <= Len(spans') /\ spans'[k] = spans[k]
           \/ Posted /\ LastPost.res # "err" /\ LastPost.batch[k] = spans[k]
           \/ wpc' = "done"
C16_State ==
    /\ \A k \in 1..Len(posts) - 1 :
           ~Succeeded(k) => IsPrefix(posts[k].batch, posts[k + 1].batch)
    /\ (posts # <<>> /\ ~Succeeded(Len(posts)) /\ ~Done) =>
           IsPrefix(posts[Len(posts)].batch, spans)
C16_FailedBatchRestored == [][C16_Step]_<<vars, wvars>> /\ []C16_State

\* A POST of one span failed, and the next attempt carried that span
\* followed by one that arrived in between.
C16_Witness ==
    /\ Len(posts) = 2
    /\ ~Succeeded(1)
    /\ Len(posts[1].batch) = 1
    /\ Len(posts[2].batch) = 2
    /\ IsPrefix(posts[1].batch, posts[2].batch)

\* C17 as stated: a span is retried once: it is in no POST attempt later
\* than the one that follows the attempt in which it first failed.
C17_AtMostOneRetry ==
    \A k, l \in 1..Len(posts) : l > k + 1 => Batch(k) \cap Batch(l) = {}

\* C17 (amended): the spans of a failed batch are restored and retried at
\* every following POST attempt for as long as the attempts fail, without a
\* bound on the number of retries: a span that is in two attempts is in
\* every attempt between them and all of these failed; there is at most one
\* attempt per elapsed send interval.
C17_Step ==
    /\ Posted => Len(posts') <= ticks
    /\ (wpc # "post" /\ wpc' = "post") => (due /\ ~due')
C17_State ==
    /\ \A k, l \in 1..Len(posts) : k < l =>
           \A s \in Batch(k) \cap Batch(l) :
               \A j \in k..(l - 1) : ~Succeeded(j) /\ s \in Batch(j)
    /\ \A k \in 1..Len(posts) - 1 : ~Succeeded(k) => Batch(k) \subseteq Batch(k + 1)
C17_RetriedWhileFailing == [][C17_Step]_<<vars, wvars>> /\ []C17_State

\* A span has been in three POST attempts.
C17_Witness ==
    /\ Len(posts) = 3
    /\ Batch(1) \cap Batch(3) # {}

\* C18: a span is in at most one POST that the HTTP client reports as
\* successful; right after such a POST, also one whose response reports
\* rejected spans, the buffer is empty, and the spans it carried are in no
\* later attempt, not in the buffer and not in the channel again.
C18_Step ==
    (Posted /\ LastPost.res # "err") => spans' = <<>>
C18_State ==
    \A k \in 1..Len(posts) : Succeeded(k) =>
        /\ \A l \in 1..Len(posts) : (l > k \/ (l # k /\ Succeeded(l))) =>
               Batch(k) \cap Batch(l) = {}
        /\ Batch(k) \cap Range(spans) = {}
        /\ Batch(k) \cap Range(chan) = {}
        /\ \A t \in Threads : closing[t] \notin Batch(k)
C18_AtMostOnce == [][C18_Step]_<<vars, wvars>> /\ []C18_State

\* A span failed once, was then in a POST answered with rejected spans, and
\* a third attempt was made with other spans.
C18_Witness ==
    /\ Len(posts) = 3
    /\ ~Succeeded(1)
    /\ posts[2].res = "partial"
    /\ Batch(1) \cap Batch(2) # {}
    /\ Batch(3) # {}

\* The spans of seq that thread t closed come in the order of its callbacks.
InThreadOrder(seq) ==
    \A a, b \in 1..Len(seq) :
        (a < b /\ seq[a].thread = seq[b].thread) => seq[a].id < seq[b].id
\* No span occurs twice in seq.
NoRepeat(seq) == \A a, b \in 1..Len(seq) : seq[a] = seq[b] => a = b

\* C19 as stated: the spans of every POST attempt come in the order in which
\* their on_close callbacks were invoked, also when the callbacks run on
\* several threads.
C19_BatchInCallbackOrder ==
    \A k \in 1..Len(posts) :
        \A a, b \in 1..Len(posts[k].batch) :
            a < b => posts[k].batch[a].id < posts[k].batch[b].id

\* C19 (amended): each POST attempt carries, as one sequence, exactly the
\* worker's buffer at flush time; the buffer grows only at its end, by the
\* oldest span in the channel, and the channel only at its end, by the send
\* of a report_span call, so the order in a batch is the order of the sends,
\* with the spans restored from a failed attempt ahead of later arrivals.
\* That order is the order of the on_close callbacks for the callbacks of
\* one thread; callbacks that run concurrently on several threads send in
\* either order.
C19_Step ==
    /\ Posted => LastPost.batch = spans
    /\ chan' # chan =>
           \/ \E t \in Threads : /\ closing[t] # NoSpan
                                 /\ chan' = Append(chan, closing[t])
                                 /\ spans' = spans
           \/ /\ chan # <<>>
              /\ chan' = Tail(chan)
              /\ spans' = Append(spans, Head(chan))
    /\ spans' # spans => (chan' # chan \/ Posted \/ wpc' = "done")
C19_State ==
    /\ \A k \in 1..Len(posts) :
           InThreadOrder(posts[k].batch) /\ NoRepeat(posts[k].batch)
    /\ InThreadOrder(spans \o chan) /\ NoRepeat(spans \o chan)
C19_BatchInSendOrder == [][C19_Step]_<<vars, wvars>> /\ []C19_State

\* A batch of two spans closed on different threads was sent in the reverse
\* of the order of their callbacks, failed, and was sent again as it was.
C19_Witness ==
    /\ Len(posts) = 2
    /\ ~Succeeded(1)
    /\ Len(posts[1].batch) = 2
    /\ posts[1].batch[1].id > posts[1].batch[2].id
    /\ posts[1].batch[1].thread # posts[1].batch[2].thread
    /\ posts[2].batch = posts[1].batch

\* C20: once the sender has been dropped the worker eventually leaves
\* run_loop; it leaves only on seeing the channel closed and empty, the
\* spans in its buffer at that moment are dropped with the buffer, and no
\* POST is made at or after that moment.
C20_Step ==
    /\ (~Done /\ Done') =>
           (~open /\ chan = <<>> /\ spans' = <<>> /\ posts' = posts)
    /\ Done => (Done' /\ posts' = posts /\ spans' = spans /\ chan' = chan)
C20_WorkerTerminates ==
    [][C20_Step]_<<vars, wvars>> /\ (~open ~> Done)

\* The worker has terminated, and a span whose only POST failed is lost.
C20_Witness ==
    /\ Done
    /\ posts # <<>>
    /\ \A k \in 1..Len(posts) : ~Succeeded(k)
    /\ spans = <<>> /\ chan = <<>>
    /\ nextSent = MaxSent + 1

\* C23: on_event settles on the event's parent by strict precedence: the
\* parent the event names explicitly, whatever span is current; else no
\* parent when the event is explicitly a root, even while a span is current;
\* else the span current on the emitting thread, or no parent when there is
\* none.  The event goes where that parent says: a parentless event is
\* published and touches no span, any other touches at most the pending
\* list of that parent and is not published.
C23_Parent(ev) ==
    IF ev.kind = "explicit" THEN ev.id
    ELSE IF ev.kind = "root" THEN 0
    ELSE IF stack = <<>> THEN 0
    ELSE stack[Len(stack)]
C23_Step ==
    last'.op = "on_event" =>
        LET p == C23_Parent(Unwrap(last'.val))
        IN /\ last'.id = p
           /\ IF p = 0
              THEN /\ registry' = registry
                   /\ Len(reported_events') = Len(reported_events) + 1
                   /\ reported_events'[Len(reported_events')].parent_id = None
              ELSE /\ reported_events' = reported_events
                   /\ \A j \in SpanIds \ {p} : registry'[j] = registry[j]
                   /\ HasCtx(p) =>
                          /\ Len(Unwrap(ExtN(p).Events)) = Len(Pending(p)) + 1
                          /\ Unwrap(ExtN(p).Events)[Len(Pending(p)) + 1].values
                                 = <<nextEvent>>
C23_EventParentPrecedence == [][C23_Step]_vars

\* An event naming span i as its parent was emitted while another span was
\* current, and it is the last entry of i's pending list, not of the
\* current span's.
C23_Witness ==
    /\ last.op = "on_event"
    /\ Unwrap(last.val).kind = "explicit"
    /\ stack # <<>>
    /\ Unwrap(CurrentSpan) # last.id
    /\ HasCtx(Unwrap(CurrentSpan))
    /\ Pending(last.id) # <<>>
    /\ Pending(last.id)[Len(Pending(last.id))].values = <<nextEvent - 1>>
    /\ Pending(Unwrap(CurrentSpan)) = <<>>

\* C24: every open span holds its four scratch slots (initialisation
\* timestamp, promoted id, visitor, pending-event list) from its open to its
\* close.  The event list is empty right after the open; no callback and no
\* context call on a span that stays open removes a slot or changes the
\* timestamp or the promoted id; the close destroys the scratch with the
\* span.
C24_Slots(ext) ==
    /\ IsSome(ext.SpanInitAt)
    /\ IsSome(ext.PromotedSpanId)
    /\ IsSome(ext.Visitor)
    /\ IsSome(ext.Events)
C24_Step ==
    \A i \in SpanIds :
        /\ Opens(i) => (C24_Slots(ExtN(i)) /\ ExtN(i).Events = Some(<<>>))
        /\ StaysOpen(i) =>
               /\ C24_Slots(ExtN(i))
               /\ ExtN(i).SpanInitAt = Ext(i).SpanInitAt
               /\ ExtN(i).PromotedSpanId = Ext(i).PromotedSpanId
        /\ Closes(i) => registry'[i] = None
        /\ (IsSome(registry[i]) /\ registry'[i] = None) => Closes(i)
C24_State == \A i \in Live : C24_Slots(Ext(i))
C24_ScratchFromOpenToClose == [][C24_Step]_vars /\ []C24_State

\* A span that was rooted, recorded on and given an event still holds the
\* four slots: the visitor and the event list have grown, none was removed.
C24_Witness ==
    /\ last.op = "on_event"
    /\ last.id # 0
    /\ IsSome(rooted[last.id])
    /\ C24_Slots(Ext(last.id))
    /\ Len(Unwrap(Ext(last.id).Visitor)) > 1
    /\ Pending(last.id) # <<>>

\* C28: the attribute list of a span is the fields given at its open followed
\* by the fields of each on_record on it, in call order: the open leaves
\* exactly its fields, every on_record appends exactly its fields behind
\* what the list held (one pair per field, a key already present included),
\* nothing else changes the list, and the close reports the list as it is.
C28_Visitor(i) == Unwrap(Ext(i).Visitor)
C28_Records ==
    nCalls' = nCalls + 1 /\ nextId' = nextId /\ last'.op = "none"
C28_Step ==
    /\ \A i \in SpanIds :
           /\ Opens(i) => Unwrap(ExtN(i).Visitor) \in AttrInputs
           /\ (StaysOpen(i) /\ ExtN(i).Visitor # Ext(i).Visitor) => C28_Records
           /\ (Closes(i) /\ HasCtx(i)) =>
                  LastReported.span.values = C28_Visitor(i)
    /\ C28_Records =>
           \E i \in Live, values \in RecordInputs :
               /\ StaysOpen(i)
               /\ Unwrap(ExtN(i).Visitor) = C28_Visitor(i) \o values
               /\ Len(Unwrap(ExtN(i).Visitor)) = Len(C28_Visitor(i)) + Len(values)
               /\ \A j \in SpanIds \ {i} : registry'[j] = registry[j]
C28_AttributesInCallOrder == [][C28_Step]_vars

\* A span opened with one field and recorded on twice, each time with two
\* fields of which one has the key given at the open, was reported with the
\* five pairs in call order.
C28_Witness ==
    /\ last.op = "on_close"
    /\ reported_spans # <<>>
    /\ reported_spans[Len(reported_spans)].span.values
           = <<"attr", "attr", "field", "attr", "field">>

\* C21: no failure of the export side reaches instrumented code: whatever
\* state the worker is in, report_span and report_event return to the
\* callback that called them, and no callback thread panics.
C21_CallbacksReturnNormally == panicked = {}

\* C22: report_span never waits for the worker.  A callback that holds a
\* span can send it in every state of the worker, also while the worker is
\* inside a POST; the send puts that one span at the end of the channel and
\* touches nothing the worker owns.  A POST attempt is a step of the worker
\* thread: no callback starts, ends or sends in it.
C22_Sends(t) == closing[t].id # 0 /\ closing'[t] = NoSpan
C22_Step ==
    /\ \A t \in Threads : C22_Sends(t) =>
           /\ chan' = Append(chan, closing[t])
           /\ UNCHANGED <<spans, posts, wpc, due, last_send>>
    /\ (posts' # posts \/ wpc' # wpc) => UNCHANGED <<closing, nextSent, open>>
    /\ posts' # posts => (wpc = "post" /\ chan' = chan)
C22_State ==
    \A t \in Threads : closing[t].id # 0 => ENABLED otlp_report_span(t)
C22_ReportSpanNeverWaits == [][C22_Step]_wvars /\ []C22_State

\* The worker is inside a POST and a callback has sent a span the request
\* does not hold: the span is younger than those of the request and waits in
\* the channel.
C22_Witness ==
    /\ wpc = "post"
    /\ chan # <<>>
    /\ \A s \in Range(spans) : s.id < chan[1].id
    /\ \A t \in Threads : closing[t] = NoSpan

\* C27: the adapter puts exactly one message on the channel per report_span
\* call and none per report_event call.  The channel grows only by the one
\* span of a returning report_span; a returning report_event leaves it as
\* it is; so every message in the channel, in the worker's buffer or in a
\* POST attempt is the span of one on_close callback that has returned, and
\* no span is in the channel or the buffer twice.
C27_SpanReturns(t) == closing[t].id # 0 /\ closing'[t] = NoSpan
C27_EventReturns(t) == closing[t] = NoParentEvent(t) /\ closing'[t] = NoSpan
C27_Messages ==
    Range(chan) \cup Range(spans) \cup UNION {Batch(k) : k \in 1..Len(posts)}
C27_Step ==
    /\ \A t \in Threads : C27_SpanReturns(t) => chan' = Append(chan, closing[t])
    /\ \A t \in Threads : C27_EventReturns(t) => UNCHANGED <<chan, spans, posts>>
    /\ Len(chan') > Len(chan) => \E t \in Threads : C27_SpanReturns(t)
C27_State ==
    /\ \A m \in C27_Messages :
           /\ m.id \in 1..(nextSent - 1)
           /\ m.thread \in Threads
           /\ closing[m.thread] # m
    /\ NoRepeat(chan \o spans)
    /\ \A m, n \in C27_Messages : m.id = n.id => m = n
C27_OneMessagePerSpan == [][C27_Step]_wvars /\ []C27_State

\* Two spans were closed and the channel holds exactly their two messages,
\* while the callback of a parentless event runs on one of the threads.
C27_Witness ==
    /\ nextSent = 3
    /\ Len(chan) = 2
    /\ \E t \in Threads : closing[t] = NoParentEvent(t)

\* C29: when the send interval has elapsed and the buffer is empty, the
\* worker sets last_send to now and goes back to receiving without a
\* request; no POST is made, started or recorded, with an empty span list.
C29_Step ==
    (wpc = "send" /\ wpc' # "send" /\ due /\ spans = <<>>) =>
        /\ last_send' = ticks
        /\ ~due'
        /\ wpc' = "recv"
        /\ UNCHANGED <<posts, spans>>
C29_State ==
    /\ wpc = "post" => spans # <<>>
    /\ \A k \in 1..Len(posts) : posts[k].batch # <<>>
C29_NoEmptyPost == [][C29_Step]_wvars /\ []C29_State

\* No span was ever closed, intervals have elapsed and the worker has
\* advanced last_send past the first of them without a single POST.
C29_Witness ==
    /\ nextSent = 1
    /\ last_send > 1
    /\ ~due
    /\ wpc = "recv"
    /\ posts = <<>>

\* C30: the worker starts a POST only in an iteration in which the send
\* interval has elapsed since last_send, and it sets last_send to now
\* before it sends; last_send changes nowhere else.  So the starts of any
\* two consecutive POST attempts, failed or not, lie at least one interval
\* apart, however many spans wait.  (Time is counted in elapsed intervals:
\* ticks advances when a full interval has passed since last_send.)
C30_Step ==
    /\ (wpc # "post" /\ wpc' = "post") =>
           /\ due
           /\ last_send < ticks
           /\ last_send' = ticks
           /\ ~due'
    /\ last_send' # last_send => (wpc = "send" /\ due /\ last_send' = ticks)
C30_State ==
    /\ last_send <= ticks
    /\ due <=> last_send < ticks
    /\ \A k \in 1..Len(posts) : posts[k].at <= last_send
    /\ \A k \in 1..(Len(posts) - 1) : posts[k].at + 1 <= posts[k + 1].at
    /\ (wpc = "post" /\ posts # <<>>) => posts[Len(posts)].at + 1 <= last_send
C30_PostsAnIntervalApart == [][C30_Step]_wvars /\ []C30_State

\* A POST failed, the second span arrived and waited, and the retry with
\* both spans started exactly one interval after the first attempt.
C30_Witness ==
    /\ Len(posts) = 2
    /\ posts[1].res = "err"
    /\ Len(posts[1].batch) = 1
    /\ Len(posts[2].batch) = 2
    /\ posts[2].at = posts[1].at + 1

\* C25: for every reported span initialized_at <= completed_at, and for
\* every exported message start_time_unix_nano <= end_time_unix_nano, also
\* when the wall clock was set back between the open and the close.
C25_TimesOrdered ==
    exported # None =>
        /\ Unwrap(exported).span.initialized_at <= Unwrap(exported).span.completed_at
        /\ Unwrap(exported).msg.start_time_unix_nano
               <= Unwrap(exported).msg.end_time_unix_nano

\* C26: in the message made of a completed span, trace_id is 16 bytes that
\* decode little-endian to the span's trace id, span_id is 8 bytes that
\* decode little-endian to the span's id, and parent_span_id is the 8
\* little-endian bytes of the parent id when the span has one (also when
\* that id is 0) and empty exactly when it has none.  (The ids of the
\* inputs are below 2^24, so the bytes from the fourth on are zero and
\* the first three carry the value.)
C26_Small(bytes) == \A k \in 1..Len(bytes) : k > 3 => bytes[k] = 0
C26_FromLe(bytes) == bytes[1] + 256 * bytes[2] + 65536 * bytes[3]
C26_Bytes(bytes, width) ==
    Len(bytes) = width /\ \A k \in 1..Len(bytes) : bytes[k] \in 0..255
C26_LittleEndianIds ==
    exported # None =>
        LET span == Unwrap(exported).span
            msg == Unwrap(exported).msg
        IN /\ C26_Bytes(msg.trace_id, 16)
           /\ C26_Small(msg.trace_id)
           /\ C26_FromLe(msg.trace_id) = span.trace_id
           /\ C26_Bytes(msg.span_id, 8)
           /\ C26_Small(msg.span_id)
           /\ C26_FromLe(msg.span_id) = span.id
           /\ IsSome(span.parent_id) =>
                  /\ C26_Bytes(msg.parent_span_id, 8)
                  /\ C26_Small(msg.parent_span_id)
                  /\ C26_FromLe(msg.parent_span_id) = Unwrap(span.parent_id)
           /\ msg.parent_span_id = <<>> <=> span.parent_id = None

\* A span with ids of more than one byte and the parent id 0 was exported:
\* its parent_span_id is eight zero bytes, not the empty string.
C26_Witness ==
    /\ exported # None
    /\ Unwrap(exported).span.trace_id = 65537
    /\ Unwrap(exported).span.id = 258
    /\ Unwrap(exported).span.parent_id = Some(0)
    /\ Unwrap(exported).msg.trace_id
           = <<1, 0, 1, 0, 0, 0, 0, 0, 0, 0, 0, 0, 0, 0, 0, 0>>
    /\ Unwrap(exported).msg.span_id = <<2, 1, 0, 0, 0, 0, 0, 0>>
    /\ Unwrap(exported).msg.parent_span_id = <<0, 0, 0, 0, 0, 0, 0, 0>>

\* C31: while the sender lives and every HTTP call returns, every span the
\* worker has received gets into a POST attempt, whether more spans arrive
\* or none: a non-empty buffer leads to a POST of the worker, the POST takes
\* the whole buffer and ends as an attempt that holds all of it, and a
\* span leaves the buffer only in an attempt that succeeded, so it is in
\* every attempt up to and including the first that succeeds.  (The clock
\* of the model stops at MaxTicks: the buffer is promised a POST while an
\* interval has elapsed or can still elapse.)
C31_TimeLeft == due \/ ticks < MaxTicks
C31_Step ==
    /\ (wpc # "post" /\ wpc' = "post") => (spans # <<>> /\ spans' = spans)
    /\ Posted => (wpc = "post" /\ LastPost.batch = spans)
    /\ (wpc = "post" /\ wpc' # "post") => Posted
    /\ \A s \in Range(spans) : s \notin Range(spans') =>
           \/ Posted /\ LastPost.res # "err" /\ s \in Range(LastPost.batch)
           \/ ~open /\ wpc' = "done"
C31_Flushed ==
    (spans # <<>> /\ C31_TimeLeft) ~> (wpc = "post" \/ ~open)
C31_Returned == (wpc = "post") ~> (wpc # "post")
C32_NoFailedLookup == emitting.pc # "panicked"

====
